---- MODULE Spec2Model ----
(***************************************************************************)
(* Type checking and conversion of easyconfig parameter values             *)
(* (easybuild/framework/easyconfig/types.py).                              *)
(*                                                                         *)
(* Python values are records with a fixed set of fields, so that any two   *)
(* values can be compared:                                                 *)
(*   k   the runtime type ("str", "bool", "int", "float", "NoneType",      *)
(*       "list", "tuple", "dict", "type")                                  *)
(*   s   the characters of a str (one-character strings), or the name of   *)
(*       a type object                                                     *)
(*   n   the number of a bool (0/1), an int, or a float (in tenths)        *)
(*   e   the elements of a list or tuple, or the values of a dict in       *)
(*       insertion order                                                   *)
(*   ks  the keys of a dict in insertion order                             *)
(* The outcome of a call is a record [exc, msg, val]: exc is "none" when   *)
(* the call returns val, and the exception class when it raises.           *)
(***************************************************************************)
EXTENDS Integers, Sequences, FiniteSets, TLC

\* ------------------------------------------------------------ bounds

\* longest flat list or tuple drawn as an input
MaxLen == 2

\* most keys of a toolchain-like dict drawn as an input
MaxKeys == 3

\* ------------------------------------------------------------ values

Val(k, s, n, e, ks) == [k |-> k, s |-> s, n |-> n, e |-> e, ks |-> ks]

StrV(cs) == Val("str", cs, 0, <<>>, <<>>)

IntV(i) == Val("int", <<>>, i, <<>>, <<>>)

BoolV(b) == Val("bool", <<>>, IF b THEN 1 ELSE 0, <<>>, <<>>)

FloatV(tenths) == Val("float", <<>>, tenths, <<>>, <<>>)

NoneV == Val("NoneType", <<>>, 0, <<>>, <<>>)

ListV(es) == Val("list", <<>>, 0, es, <<>>)

TupleV(es) == Val("tuple", <<>>, 0, es, <<>>)

DictV(keys, vals) == Val("dict", <<>>, 0, vals, keys)

TypeV(name) == Val("type", <<name>>, 0, <<>>, <<>>)

EmptyDict == DictV(<<>>, <<>>)

\* the type objects the module uses
T_str == TypeV("str")

T_bool == TypeV("bool")

T_int == TypeV("int")

T_float == TypeV("float")

T_dict == TypeV("dict")

T_list == TypeV("list")

T_tuple == TypeV("tuple")

T_NoneType == TypeV("NoneType")

\* ------------------------------------------------------------ outcomes

Ok(v) == [exc |-> "none", msg |-> "", val |-> v]

Raise(exc, msg) == [exc |-> exc, msg |-> msg, val |-> NoneV]

Raised(r) == r.exc # "none"

\* a Python bool result seen as a TLA+ boolean
IsTrue(r) == r.exc = "none" /\ r.val = BoolV(TRUE)

\* x = e; F(x): e is evaluated once
Let(e, F(_)) == F(e)

\* x = out; F(x), where an exception raised on the way to x propagates
Then(out, F(_)) == IF Raised(out) THEN out ELSE F(out.val)

\* ------------------------------------------------------------ sequences

RECURSIVE IndexOf(_, _, _)
\* first index >= i at which seq holds x, 0 when there is none
IndexOf(seq, x, i) ==
    IF i > Len(seq) THEN 0
    ELSE IF seq[i] = x THEN i
    ELSE IndexOf(seq, x, i + 1)

InSeq(x, seq) == IndexOf(seq, x, 1) # 0

RemoveAt(seq, i) == SubSeq(seq, 1, i - 1) \o SubSeq(seq, i + 1, Len(seq))

Range(seq) == {seq[i] : i \in 1..Len(seq)}

SeqsUpTo(S, n) == UNION {[1..m -> S] : m \in 0..n}

\* the sequences of m distinct members of S
DistinctSeqs(S, m) == {q \in [1..m -> S] : \A i, j \in 1..m : i # j => q[i] # q[j]}

\* ------------------------------------------------------------ strings

\* the characters the model uses, in code point order
Ascii ==
    <<" ", "'", "(", ")", ",", ".", "0", "1", "2", "3", "4", "5", "6", "7", "8", "9", ":", "<", ">",
      "A", "B", "C", "D", "E", "F", "G", "H", "I", "J", "K", "L", "M",
      "N", "O", "P", "Q", "R", "S", "T", "U", "V", "W", "X", "Y", "Z", "[", "]", "_",
      "a", "b", "c", "d", "e", "f", "g", "h", "i", "j", "k", "l", "m",
      "n", "o", "p", "q", "r", "s", "t", "u", "v", "w", "x", "y", "z", "{", "}">>

\* c1 < c2, by code point
CharLess(c1, c2) == Let(Ascii, LAMBDA chars : IndexOf(chars, c1, 1) < IndexOf(chars, c2, 1))

UpperCase ==
    <<"A", "B", "C", "D", "E", "F", "G", "H", "I", "J", "K", "L", "M",
      "N", "O", "P", "Q", "R", "S", "T", "U", "V", "W", "X", "Y", "Z">>

LowerCase ==
    <<"a", "b", "c", "d", "e", "f", "g", "h", "i", "j", "k", "l", "m",
      "n", "o", "p", "q", "r", "s", "t", "u", "v", "w", "x", "y", "z">>

DigitChars == <<"0", "1", "2", "3", "4", "5", "6", "7", "8", "9">>

IsDigit(c) == InSeq(c, DigitChars)

\* str.lower() on one character
LowerChar(c) == Let(IndexOf(UpperCase, c, 1), LAMBDA i : IF i = 0 THEN c ELSE LowerCase[i])

\* str.lower()
Lower(cs) == [i \in 1..Len(cs) |-> LowerChar(cs[i])]

RECURSIVE LStrip(_)
LStrip(cs) == IF cs # <<>> /\ Head(cs) = " " THEN LStrip(Tail(cs)) ELSE cs

RECURSIVE RStrip(_)
RStrip(cs) ==
    IF cs # <<>> /\ cs[Len(cs)] = " " THEN RStrip(SubSeq(cs, 1, Len(cs) - 1)) ELSE cs

\* str.strip()
Strip(cs) == RStrip(LStrip(cs))

RECURSIVE SplitFrom(_, _, _)
\* str.split(sep) from position i on, cur being the piece read so far
SplitFrom(cs, sep, cur) ==
    IF cs = <<>> THEN <<cur>>
    ELSE IF Head(cs) = sep THEN <<cur>> \o SplitFrom(Tail(cs), sep, <<>>)
    ELSE SplitFrom(Tail(cs), sep, Append(cur, Head(cs)))

\* str.split(','): the list of the pieces
Split(cs, sep) ==
    Let(SplitFrom(cs, sep, <<>>),
        LAMBDA pieces : ListV([i \in 1..Len(pieces) |-> StrV(pieces[i])]))

RECURSIVE StrLess(_, _)
\* a < b for two str values (lexicographic, by code point)
StrLess(a, b) ==
    IF b = <<>> THEN FALSE
    ELSE IF a = <<>> THEN TRUE
    ELSE IF Head(a) # Head(b) THEN CharLess(Head(a), Head(b))
    ELSE StrLess(Tail(a), Tail(b))

\* ------------------------------------------------------------ Python builtins

IsNum(v) == v.k \in {"bool", "int", "float"}

\* the number a bool, int or float stands for, in tenths
Num(v) == IF v.k = "float" THEN v.n ELSE v.n * 10

RECURSIVE PyEq(_, _)
\* a == b: numbers by value, containers element by element, dicts whatever the
\* order of their keys
PyEq(a, b) ==
    IF IsNum(a) /\ IsNum(b) THEN Num(a) = Num(b)
    ELSE IF a.k # b.k THEN FALSE
    ELSE IF a.k \in {"list", "tuple"}
    THEN Len(a.e) = Len(b.e) /\ \A i \in 1..Len(a.e) : PyEq(a.e[i], b.e[i])
    ELSE IF a.k = "dict"
    THEN /\ Len(a.ks) = Len(b.ks)
         /\ \A i \in 1..Len(a.ks) :
               \E j \in 1..Len(b.ks) : PyEq(a.ks[i], b.ks[j]) /\ PyEq(a.e[i], b.e[j])
    ELSE a = b

RECURSIVE PyIndex(_, _, _)
\* first index >= i at which seq holds a value equal (==) to x, 0 when none
PyIndex(seq, x, i) ==
    IF i > Len(seq) THEN 0
    ELSE IF PyEq(seq[i], x) THEN i
    ELSE PyIndex(seq, x, i + 1)

\* x in seq, for the elements of a list, a tuple or a set
PyIn(x, seq) == PyIndex(seq, x, 1) # 0

\* key in d, for a dict d
HasKey(d, key) == PyIn(key, d.ks)

\* d[key], a KeyError when the key is missing
GetItem(d, key) ==
    Let(PyIndex(d.ks, key, 1),
        LAMBDA i : IF i # 0 THEN Ok(d.e[i]) ELSE Raise("KeyError", "missing key"))

\* d[key] = v on a dict value: a known key keeps its place
SetItem(d, key, v) ==
    Let(PyIndex(d.ks, key, 1),
        LAMBDA i : IF i # 0 THEN DictV(d.ks, [d.e EXCEPT ![i] = v])
                   ELSE DictV(Append(d.ks, key), Append(d.e, v)))

RECURSIVE Hashable(_)
Hashable(v) ==
    IF v.k \in {"list", "dict"} THEN FALSE
    ELSE IF v.k = "tuple" THEN \A i \in 1..Len(v.e) : Hashable(v.e[i])
    ELSE TRUE

\* bool(v)
Truthy(v) ==
    IF v.k = "NoneType" THEN FALSE
    ELSE IF IsNum(v) THEN v.n # 0
    ELSE IF v.k = "str" THEN v.s # <<>>
    ELSE IF v.k = "type" THEN TRUE
    ELSE v.e # <<>>

\* isinstance(v, t) for a type object t: bool is a subclass of int
isinstance(v, t) == v.k = t.s[1] \/ (v.k = "bool" /\ t.s[1] = "int")

RECURSIVE isinstance_any(_, _)
\* isinstance(v, t) for any second argument: a tuple is searched in order and
\* may nest; an item that is no type is a TypeError when it is reached
isinstance_any(v, t) ==
    IF t.k = "type" THEN Ok(BoolV(isinstance(v, t)))
    ELSE IF t.k # "tuple" THEN Raise("TypeError", "isinstance() arg 2 must be a type")
    ELSE IF t.e = <<>> THEN Ok(BoolV(FALSE))
    ELSE LET first == isinstance_any(v, t.e[1])
         IN IF Raised(first) \/ IsTrue(first) THEN first
            ELSE isinstance_any(v, TupleV(Tail(t.e)))

\* iter(v): the elements a for loop over v sees
Iter(v) ==
    IF v.k \in {"list", "tuple"} THEN Ok(v.e)
    ELSE IF v.k = "dict" THEN Ok(v.ks)
    ELSE IF v.k = "str" THEN Ok([i \in 1..Len(v.s) |-> StrV(<<v.s[i]>>)])
    ELSE Raise("TypeError", "object is not iterable")

\* a < b is defined (two str, or two numbers)
Comparable(a, b) == (a.k = "str" /\ b.k = "str") \/ (IsNum(a) /\ IsNum(b))

PyLess(a, b) == IF a.k = "str" THEN StrLess(a.s, b.s) ELSE Num(a) < Num(b)

RECURSIVE InsertSorted(_, _)
InsertSorted(sorted, x) ==
    IF sorted = <<>> THEN <<x>>
    ELSE IF PyLess(x, Head(sorted)) THEN <<x>> \o sorted
    ELSE <<Head(sorted)>> \o InsertSorted(Tail(sorted), x)

RECURSIVE SortAsc(_)
SortAsc(seq) ==
    IF seq = <<>> THEN <<>>
    ELSE InsertSorted(SortAsc(SubSeq(seq, 1, Len(seq) - 1)), seq[Len(seq)])

\* sorted(seq): a TypeError when two of the elements cannot be compared
Sorted(seq) ==
    IF \E i, j \in 1..Len(seq) : i # j /\ ~Comparable(seq[i], seq[j])
    THEN Raise("TypeError", "'<' not supported")
    ELSE Ok(ListV(SortAsc(seq)))

\* d.items() left in the order of insertion: as_hashable without sorted()
UnsortedItems(d) == Ok(d)

\* the permutation sorted(d.items()) applies to the items of dict d
SortedItems(d) ==
    Then(Sorted(d.ks),
         LAMBDA keys : Ok(DictV(keys.e,
                                [i \in 1..Len(d.ks) |-> d.e[IndexOf(d.ks, keys.e[i], 1)]])))

RECURSIVE Digits(_)
\* the decimal digits of n >= 0
Digits(n) ==
    IF n < 10 THEN <<DigitChars[n + 1]>>
    ELSE Digits(n \div 10) \o <<DigitChars[(n % 10) + 1]>>

RECURSIVE JoinReprs(_)
JoinReprs(parts) ==
    IF parts = <<>> THEN <<>>
    ELSE IF Len(parts) = 1 THEN parts[1]
    ELSE parts[1] \o <<",", " ">> \o JoinReprs(Tail(parts))

RECURSIVE Repr(_)
\* repr(v), for numbers >= 0 and strings without quotes or escapes
Repr(v) ==
    IF v.k = "str" THEN <<"'">> \o v.s \o <<"'">>
    ELSE IF v.k = "NoneType" THEN <<"N", "o", "n", "e">>
    ELSE IF v.k = "bool"
    THEN (IF v.n = 1 THEN <<"T", "r", "u", "e">> ELSE <<"F", "a", "l", "s", "e">>)
    ELSE IF v.k = "int" THEN Digits(v.n)
    ELSE IF v.k = "float" THEN Digits(v.n \div 10) \o <<".">> \o Digits(v.n % 10)
    ELSE IF v.k = "type"
    THEN <<"<", "c", "l", "a", "s", "s", " ", "'">> \o <<v.s[1]>> \o <<"'", ">">>
    ELSE IF v.k = "list"
    THEN <<"[">> \o JoinReprs([i \in 1..Len(v.e) |-> Repr(v.e[i])]) \o <<"]">>
    ELSE IF v.k = "tuple"
    THEN <<"(">> \o JoinReprs([i \in 1..Len(v.e) |-> Repr(v.e[i])])
               \o (IF Len(v.e) = 1 THEN <<",">> ELSE <<>>) \o <<")">>
    ELSE <<"{">> \o JoinReprs([i \in 1..Len(v.e) |->
                                  Repr(v.ks[i]) \o <<":", " ">> \o Repr(v.e[i])])
               \o <<"}">>

\* str(v)
PyStr(v) == IF v.k = "str" THEN v ELSE StrV(Repr(v))

RECURSIVE ParseNat(_, _)
\* the number a non-empty sequence of digits writes, acc being the part read
ParseNat(cs, acc) ==
    IF cs = <<>> THEN acc
    ELSE ParseNat(Tail(cs), 10 * acc + (IndexOf(DigitChars, Head(cs), 1) - 1))

AllDigits(cs) == cs # <<>> /\ \A i \in 1..Len(cs) : IsDigit(cs[i])

\* int(cs) for the characters of a str (no sign, no underscore)
IntOfStr(cs) ==
    IF AllDigits(cs) THEN Ok(IntV(ParseNat(cs, 0)))
    ELSE Raise("ValueError", "invalid literal for int()")

\* int(v), for numbers >= 0 and the strings of the model
PyInt(v) ==
    IF v.k \in {"int", "bool"} THEN Ok(IntV(v.n))
    ELSE IF v.k = "float" THEN Ok(IntV(v.n \div 10))
    ELSE IF v.k = "str" THEN IntOfStr(Strip(v.s))
    ELSE Raise("TypeError", "int() argument must be a string or a number")

\* float(cs) for the n characters of a str (digits, at most one digit after the
\* point)
FloatOfStr(cs, n) ==
    IF AllDigits(cs) THEN Ok(FloatV(10 * ParseNat(cs, 0)))
    ELSE IF n >= 3 /\ cs[n - 1] = "." /\ AllDigits(SubSeq(cs, 1, n - 2)) /\ IsDigit(cs[n])
    THEN Ok(FloatV(10 * ParseNat(SubSeq(cs, 1, n - 2), 0) + ParseNat(<<cs[n]>>, 0)))
    ELSE Raise("ValueError", "could not convert string to float")

\* float(v), for numbers >= 0 and the strings of the model
PyFloat(v) ==
    IF v.k = "float" THEN Ok(v)
    ELSE IF v.k \in {"int", "bool"} THEN Ok(FloatV(10 * v.n))
    ELSE IF v.k = "str" THEN Let(Strip(v.s), LAMBDA cs : FloatOfStr(cs, Len(cs)))
    ELSE Raise("TypeError", "float() argument must be a string or a number")

\* the (key, value) pair dict() reads from the items of one element
PairOfItems(items) ==
    IF Len(items) # 2
    THEN Raise("ValueError", "dictionary update sequence element has wrong length")
    ELSE IF ~Hashable(items[1]) THEN Raise("TypeError", "unhashable type")
    ELSE Ok(TupleV(items))

\* the (key, value) pair dict() reads from one element of its argument
PairOf(elem) ==
    IF elem.k \in {"list", "tuple", "dict", "str"} THEN Then(Iter(elem), PairOfItems)
    ELSE Raise("TypeError", "cannot convert dictionary update sequence")

RECURSIVE DictFromPairs(_, _)
DictFromPairs(elems, acc) ==
    IF elems = <<>> THEN Ok(acc)
    ELSE Then(PairOf(Head(elems)),
              LAMBDA p : DictFromPairs(Tail(elems), SetItem(acc, p.e[1], p.e[2])))

\* dict(v)
PyDict(v) ==
    IF v.k = "dict" THEN Ok(v)
    ELSE Then(Iter(v), LAMBDA elems : DictFromPairs(elems, EmptyDict))

\* ------------------------------------------------------------ string constants

S_elem_types == StrV(<<"e", "l", "e", "m", "_", "t", "y", "p", "e", "s">>)

S_key_types == StrV(<<"k", "e", "y", "_", "t", "y", "p", "e", "s">>)

S_opt_keys == StrV(<<"o", "p", "t", "_", "k", "e", "y", "s">>)

S_req_keys == StrV(<<"r", "e", "q", "_", "k", "e", "y", "s">>)

S_name == StrV(<<"n", "a", "m", "e">>)

S_version == StrV(<<"v", "e", "r", "s", "i", "o", "n">>)

S_hidden == StrV(<<"h", "i", "d", "d", "e", "n">>)

S_toolchain == StrV(<<"t", "o", "o", "l", "c", "h", "a", "i", "n">>)

S_versionsuffix == StrV(<<"v", "e", "r", "s", "i", "o", "n", "s", "u", "f", "f", "i", "x">>)

S_external_module == StrV(<<"e", "x", "t", "e", "r", "n", "a", "l", "_", "m", "o", "d", "u", "l", "e">>)

S_full_mod_name == StrV(<<"f", "u", "l", "l", "_", "m", "o", "d", "_", "n", "a", "m", "e">>)

S_short_mod_name == StrV(<<"s", "h", "o", "r", "t", "_", "m", "o", "d", "_", "n", "a", "m", "e">>)

S_files == StrV(<<"f", "i", "l", "e", "s">>)

S_dirs == StrV(<<"d", "i", "r", "s">>)

S_checksums == StrV(<<"c", "h", "e", "c", "k", "s", "u", "m", "s">>)

S_docurls == StrV(<<"d", "o", "c", "u", "r", "l", "s">>)

S_osdependencies == StrV(<<"o", "s", "d", "e", "p", "e", "n", "d", "e", "n", "c", "i", "e", "s">>)

S_patches == StrV(<<"p", "a", "t", "c", "h", "e", "s">>)

S_sanity_check_paths == StrV(<<"s", "a", "n", "i", "t", "y", "_", "c", "h", "e", "c", "k", "_", "p", "a", "t", "h", "s">>)

S_dependencies == StrV(<<"d", "e", "p", "e", "n", "d", "e", "n", "c", "i", "e", "s">>)

S_builddependencies == StrV(<<"b", "u", "i", "l", "d", "d", "e", "p", "e", "n", "d", "e", "n", "c", "i", "e", "s">>)

S_hiddendependencies == StrV(<<"h", "i", "d", "d", "e", "n", "d", "e", "p", "e", "n", "d", "e", "n", "c", "i", "e", "s">>)

\* ------------------------------------------------------------ descriptors

\* the first of a sequence of outcomes that raised, Ok(None) when none did
FirstRaised(outs) ==
    Let({i \in 1..Len(outs) : Raised(outs[i])},
        LAMBDA bad : IF bad = {} THEN Ok(NoneV)
                     ELSE outs[CHOOSE i \in bad : \A j \in bad : i <= j])

RECURSIVE as_hashable(_)
\* val as the loop of as_hashable turns it before appending (key, val)
hashable_value(val) ==
    IF val.k = "list" THEN Ok(TupleV(val.e))
    ELSE IF val.k = "dict" THEN as_hashable(val)
    ELSE Ok(val)

\* tuple(res) for the sorted items and the outcomes of turning their values
hashed_items(items, conv) ==
    Then(FirstRaised(conv),
         LAMBDA none : Ok(TupleV([i \in 1..Len(conv) |->
                                     TupleV(<<items.ks[i], conv[i].val>>)])))

\* as_hashable(dict_value): the sorted (key, value) pairs as a tuple of tuples,
\* a list value turned into a tuple and a dict value hashed recursively
as_hashable(dict_value) ==
    IF dict_value.k # "dict" THEN Raise("AttributeError", "no attribute 'items'")
    ELSE Then(SortedItems(dict_value),
              LAMBDA items :
                  hashed_items(items, [i \in 1..Len(items.e) |-> hashable_value(items.e[i])]))

\* (parent, as_hashable({...})): a type with extra requirements
Composite(parent, reqs) == TupleV(<<parent, as_hashable(reqs).val>>)

\* {'elem_types': [...]}
ElemTypes(types) == DictV(<<S_elem_types>>, <<ListV(types)>>)

\* from easybuild.framework.easyconfig.format.format
SANITY_CHECK_PATHS_FILES == S_files

SANITY_CHECK_PATHS_DIRS == S_dirs

DEPENDENCY_PARAMETERS == <<S_builddependencies, S_dependencies, S_hiddendependencies>>

TOOLCHAIN_DICT ==
    Composite(T_dict, DictV(
        <<S_elem_types, S_opt_keys, S_req_keys>>,
        <<DictV(<<S_hidden, S_name, S_version>>,
                <<ListV(<<T_bool>>), ListV(<<T_str>>), ListV(<<T_str>>)>>),
          ListV(<<S_hidden>>),
          ListV(<<S_name, S_version>>)>>))

DEPENDENCY_DICT ==
    Composite(T_dict, DictV(
        <<S_elem_types, S_opt_keys, S_req_keys>>,
        <<DictV(<<S_full_mod_name, S_name, S_short_mod_name, S_toolchain, S_version,
                  S_versionsuffix>>,
                <<ListV(<<T_str>>), ListV(<<T_str>>), ListV(<<T_str>>),
                  ListV(<<TOOLCHAIN_DICT>>), ListV(<<T_str>>), ListV(<<T_str>>)>>),
          ListV(<<S_full_mod_name, S_short_mod_name, S_toolchain, S_versionsuffix>>),
          ListV(<<S_name, S_version>>)>>))

DEPENDENCIES == Composite(T_list, ElemTypes(<<DEPENDENCY_DICT>>))

TUPLE_OF_STRINGS == Composite(T_tuple, ElemTypes(<<T_str>>))

LIST_OF_STRINGS == Composite(T_list, ElemTypes(<<T_str>>))

STRING_OR_TUPLE_LIST == Composite(T_list, ElemTypes(<<T_str, TUPLE_OF_STRINGS>>))

STRING_DICT ==
    Composite(T_dict, DictV(<<S_elem_types, S_key_types>>,
                            <<ListV(<<T_str>>), ListV(<<T_str>>)>>))

STRING_OR_TUPLE_DICT ==
    Composite(T_dict, DictV(<<S_elem_types, S_key_types>>,
                            <<ListV(<<T_str>>), ListV(<<T_str, TUPLE_OF_STRINGS>>)>>))

STRING_OR_TUPLE_OR_DICT_LIST ==
    Composite(T_list, ElemTypes(<<T_str, TUPLE_OF_STRINGS, STRING_DICT>>))

SANITY_CHECK_PATHS_ENTRY ==
    Composite(T_list, ElemTypes(<<T_str, TUPLE_OF_STRINGS, STRING_OR_TUPLE_DICT>>))

SANITY_CHECK_PATHS_DICT ==
    Composite(T_dict, DictV(
        <<S_elem_types, S_opt_keys, S_req_keys>>,
        <<DictV(<<SANITY_CHECK_PATHS_FILES, SANITY_CHECK_PATHS_DIRS>>,
                <<ListV(<<SANITY_CHECK_PATHS_ENTRY>>), ListV(<<SANITY_CHECK_PATHS_ENTRY>>)>>),
          ListV(<<>>),
          ListV(<<SANITY_CHECK_PATHS_FILES, SANITY_CHECK_PATHS_DIRS>>)>>))

CHECKSUM_AND_TYPE == Composite(T_tuple, ElemTypes(<<T_str, T_int>>))

CHECKSUM_LIST == Composite(T_list, ElemTypes(<<T_str, CHECKSUM_AND_TYPE>>))

CHECKSUM_TUPLE == Composite(T_tuple, ElemTypes(<<T_str, CHECKSUM_AND_TYPE>>))

CHECKSUM_DICT ==
    Composite(T_dict, DictV(
        <<S_elem_types, S_key_types>>,
        <<ListV(<<T_NoneType, T_str, CHECKSUM_AND_TYPE, CHECKSUM_TUPLE, CHECKSUM_LIST>>),
          ListV(<<T_str>>)>>))

CHECKSUM_LIST_W_DICT ==
    Composite(T_list, ElemTypes(<<T_str, CHECKSUM_AND_TYPE, CHECKSUM_DICT>>))

CHECKSUM_TUPLE_W_DICT ==
    Composite(T_tuple, ElemTypes(<<T_str, CHECKSUM_AND_TYPE, CHECKSUM_DICT>>))

CHECKSUMS ==
    Composite(T_list, ElemTypes(<<T_NoneType, T_str, CHECKSUM_AND_TYPE,
                                  CHECKSUM_LIST_W_DICT, CHECKSUM_TUPLE_W_DICT, CHECKSUM_DICT>>))

CHECKABLE_TYPES ==
    <<CHECKSUM_AND_TYPE, CHECKSUM_LIST, CHECKSUM_TUPLE,
      CHECKSUM_LIST_W_DICT, CHECKSUM_TUPLE_W_DICT, CHECKSUM_DICT, CHECKSUMS,
      DEPENDENCIES, DEPENDENCY_DICT, LIST_OF_STRINGS,
      SANITY_CHECK_PATHS_DICT, SANITY_CHECK_PATHS_ENTRY, STRING_DICT, STRING_OR_TUPLE_LIST,
      STRING_OR_TUPLE_DICT, STRING_OR_TUPLE_OR_DICT_LIST, TOOLCHAIN_DICT, TUPLE_OF_STRINGS>>

\* easy types, that can be verified with isinstance
EASY_TYPES == <<T_str, T_bool, T_dict, T_int, T_list, T_str, T_tuple, T_NoneType>>
\* ------------------------------------------------------------ the matcher

RECURSIVE is_value_of_type(_, _)

RECURSIVE any_is_value_of_type(_, _)
\* any(is_value_of_type(elem, t) for t in types): stops at the first match, and
\* at the first check that raises
any_is_value_of_type(elem, types) ==
    IF types = <<>> THEN Ok(BoolV(FALSE))
    ELSE Then(is_value_of_type(elem, Head(types)),
              LAMBDA r : IF Truthy(r) THEN Ok(BoolV(TRUE))
                         ELSE any_is_value_of_type(elem, Tail(types)))

RECURSIVE all_allowed(_, _, _)
\* the loop of check_element_types with res = any(...) for res &= any(...): the
\* last element decides
last_allowed(elems, allowed, res) ==
    IF elems = <<>> THEN Ok(BoolV(res))
    ELSE Then(Iter(Head(allowed)),
              LAMBDA types :
                  Then(any_is_value_of_type(Head(elems), types),
                       LAMBDA r : all_allowed(Tail(elems), Tail(allowed), Truthy(r))))

\* res = True; for elem, allowed_types_elem in ...: res &= any(...)
\* every element is checked, also after one has failed
all_allowed(elems, allowed, res) ==
    IF elems = <<>> THEN Ok(BoolV(res))
    ELSE Then(Iter(Head(allowed)),
              LAMBDA types :
                  Then(any_is_value_of_type(Head(elems), types),
                       LAMBDA r : all_allowed(Tail(elems), Tail(allowed), res /\ Truthy(r))))

\* allowed_types[key] if key in allowed_types, else []
allowed_for(allowed_types, key) ==
    Let(PyIndex(allowed_types.ks, key, 1),
        LAMBDA j : IF j # 0 THEN allowed_types.e[j] ELSE ListV(<<>>))

\* lines 79-99 of check_element_types, for a dict elems
check_dict_element_types(elems, allowed_types) ==
    IF allowed_types.k \in {"list", "tuple"}
    THEN all_allowed(elems.e, [i \in 1..Len(elems.e) |-> allowed_types], TRUE)
    ELSE IF allowed_types.k = "dict"
    THEN all_allowed(elems.e,
                     [i \in 1..Len(elems.e) |-> allowed_for(allowed_types, elems.ks[i])],
                     TRUE)
    ELSE Raise("EasyBuildError", "Unknown type of allowed types specification")

\* check_element_types(elems, allowed_types)
check_element_types(elems, allowed_types) ==
    IF elems.k \in {"list", "tuple"}
    THEN IF allowed_types.k \in {"list", "tuple"}
         THEN all_allowed(elems.e, [i \in 1..Len(elems.e) |-> allowed_types], TRUE)
         ELSE Raise("EasyBuildError", "Don't know how to combine value with allowed types")
    ELSE IF elems.k = "dict"
    THEN Let(PyDict(allowed_types),
             LAMBDA conv :
                 check_dict_element_types(elems, IF Raised(conv) THEN allowed_types
                                                 ELSE conv.val))
    ELSE Raise("EasyBuildError", "Don't know how to check element types for value")

RECURSIVE all_keys_allowed(_, _, _)
\* res = True; for key in val.keys(): res &= any(...)
all_keys_allowed(keys, types, res) ==
    IF keys = <<>> THEN Ok(BoolV(res))
    ELSE Then(any_is_value_of_type(Head(keys), types),
              LAMBDA r : all_keys_allowed(Tail(keys), types, res /\ Truthy(r)))

\* check_key_types(val, allowed_types)
check_key_types(val, allowed_types) ==
    IF val.k # "dict" THEN Ok(BoolV(FALSE))
    ELSE IF val.ks = <<>> THEN Ok(BoolV(TRUE))
    ELSE Then(Iter(allowed_types), LAMBDA types : all_keys_allowed(val.ks, types, TRUE))

\* key in container: an element of a list or tuple, a key of a dict, a
\* substring of a str
Contains(container, key) ==
    IF container.k \in {"list", "tuple"} THEN Ok(BoolV(PyIn(key, container.e)))
    ELSE IF container.k = "dict"
    THEN (IF Hashable(key) THEN Ok(BoolV(HasKey(container, key)))
          ELSE Raise("TypeError", "unhashable type"))
    ELSE IF container.k = "str"
    THEN (IF key.k = "str"
          THEN Ok(BoolV(\E i \in 1..(Len(container.s) - Len(key.s) + 1) :
                           SubSeq(container.s, i, i + Len(key.s) - 1) = key.s))
          ELSE Raise("TypeError", "'in <string>' requires string as left operand"))
    ELSE Raise("TypeError", "argument is not iterable")

RECURSIVE all_contained(_, _)
\* all(key in container for key in keys): stops at the first key that is missing
all_contained(keys, container) ==
    IF keys = <<>> THEN Ok(BoolV(TRUE))
    ELSE Then(Contains(container, Head(keys)),
              LAMBDA r : IF ~Truthy(r) THEN Ok(BoolV(FALSE))
                         ELSE all_contained(Tail(keys), container))

\* check_known_keys(val, allowed_keys)
check_known_keys(val, allowed_keys) ==
    IF val.k = "dict" THEN all_contained(val.ks, allowed_keys)
    ELSE Ok(BoolV(FALSE))

\* check_required_keys without its test on the keys: any dict passes
check_is_dict(val, required_keys) == Ok(BoolV(val.k = "dict"))

\* check_required_keys(val, required_keys)
check_required_keys(val, required_keys) ==
    IF val.k = "dict"
    THEN Then(Iter(required_keys), LAMBDA keys : all_contained(keys, val))
    ELSE Ok(BoolV(FALSE))

\* a + b, for the operands the requirements can hold
PyAdd(a, b) ==
    IF a.k = b.k /\ a.k \in {"list", "tuple"} THEN Ok(Val(a.k, <<>>, 0, a.e \o b.e, <<>>))
    ELSE IF a.k = "str" /\ b.k = "str" THEN Ok(StrV(a.s \o b.s))
    ELSE Raise("TypeError", "unsupported operand type(s) for +")

\* the keys of extra_req_checkers for a parent type
extra_req_checkers(parent_type) ==
    IF parent_type = T_dict THEN <<S_elem_types, S_key_types, S_opt_keys, S_req_keys>>
    ELSE <<S_elem_types>>

\* extra_reqs['opt_keys'] + extra_reqs['req_keys']
opt_and_req_keys(extra_reqs) ==
    Then(GetItem(extra_reqs, S_opt_keys),
         LAMBDA opt : Then(GetItem(extra_reqs, S_req_keys), LAMBDA req : PyAdd(opt, req)))

\* extra_req_checkers[er_key](value)
run_checker(er_key, value, extra_reqs) ==
    IF er_key = S_elem_types
    THEN Then(GetItem(extra_reqs, S_elem_types),
              LAMBDA allowed_types : check_element_types(value, allowed_types))
    ELSE IF er_key = S_key_types
    THEN Then(GetItem(extra_reqs, S_key_types),
              LAMBDA allowed_types : check_key_types(value, allowed_types))
    ELSE IF er_key = S_opt_keys
    THEN Then(opt_and_req_keys(extra_reqs),
              LAMBDA allowed_keys : check_known_keys(value, allowed_keys))
    ELSE Then(GetItem(extra_reqs, S_req_keys),
              LAMBDA required_keys : check_required_keys(value, required_keys))

RECURSIVE check_extra_reqs(_, _, _, _, _)
\* for er_key in extra_reqs: ... type_ok &= check_ok, from the i-th key on
check_extra_reqs(value, parent_type, extra_reqs, i, type_ok) ==
    IF i > Len(extra_reqs.ks) THEN Ok(BoolV(type_ok))
    ELSE IF PyIn(extra_reqs.ks[i], extra_req_checkers(parent_type))
    THEN Then(run_checker(extra_reqs.ks[i], value, extra_reqs),
              LAMBDA check_ok : check_extra_reqs(value, parent_type, extra_reqs, i + 1,
                                                 type_ok /\ Truthy(check_ok)))
    ELSE Raise("EasyBuildError", "Unknown type requirement specified")

\* lines 152-183 of is_value_of_type: expected_type is in CHECKABLE_TYPES
is_value_of_checkable_type(value, parent_type, reqs) ==
    IF isinstance(value, parent_type)
    THEN Then(PyDict(reqs),
              LAMBDA extra_reqs : check_extra_reqs(value, parent_type, extra_reqs, 1, TRUE))
    ELSE Ok(BoolV(FALSE))

\* is_value_of_type without the test on CHECKABLE_TYPES: any 2-tuple is taken
\* for a type with extra requirements
is_value_of_any_type(value, expected_type) ==
    IF PyIn(expected_type, EASY_TYPES)
    THEN Ok(BoolV(isinstance(value, expected_type)))
    ELSE IF expected_type.k = "tuple" /\ Len(expected_type.e) = 2
    THEN is_value_of_checkable_type(value, expected_type.e[1], expected_type.e[2])
    ELSE Raise("EasyBuildError", "Don't know how to check whether specified value is of type")

\* is_value_of_type(value, expected_type)
is_value_of_type(value, expected_type) ==
    IF PyIn(expected_type, EASY_TYPES)
    THEN Ok(BoolV(isinstance(value, expected_type)))
    ELSE IF PyIn(expected_type, CHECKABLE_TYPES)
    THEN is_value_of_checkable_type(value, expected_type.e[1], expected_type.e[2])
    ELSE Raise("EasyBuildError", "Don't know how to check whether specified value is of type")

\* ------------------------------------------------------------ normalizers

\* v.strip(), an AttributeError for a value that is no str
StripV(v) ==
    IF v.k = "str" THEN Ok(StrV(Strip(v.s)))
    ELSE Raise("AttributeError", "object has no attribute 'strip'")

\* the truth values to_toolchain_dict reads for the hidden element
TRUE_TOKENS ==
    {<<"y", "e", "s">>, <<"t", "r", "u", "e">>, <<"t">>, <<"y">>, <<"1">>, <<"o", "n">>}

FALSE_TOKENS ==
    {<<"n", "o">>, <<"f", "a", "l", "s", "e">>, <<"f">>, <<"n">>, <<"0">>, <<"o", "f", "f">>}

\* {'name': spec[0].strip(), 'version': spec[1].strip()}
name_version(spec) ==
    Then(StripV(spec.e[1]),
         LAMBDA name :
             Then(StripV(spec.e[2]),
                  LAMBDA version : Ok(DictV(<<S_name, S_version>>, <<name, version>>))))

\* the truth value read leniently: a token that is not a known truth value
\* stands for False
truth_value_or_false(hidden) == Ok(BoolV(hidden \in TRUE_TOKENS))

\* lines 283-288: the boolean a stripped and lowered hidden element stands for
truth_value(hidden) ==
    IF hidden \in TRUE_TOKENS THEN Ok(BoolV(TRUE))
    ELSE IF hidden \in FALSE_TOKENS THEN Ok(BoolV(FALSE))
    ELSE Raise("EasyBuildError", "Invalid truth value")

\* lines 282-289: the dict of a 3-element list
name_version_hidden(spec) ==
    Then(StripV(spec.e[3]),
         LAMBDA stripped :
             Then(truth_value(Lower(stripped.s)),
                  LAMBDA hidden :
                      Then(name_version(spec),
                           LAMBDA res : Ok(SetItem(res, S_hidden, hidden)))))

\* lines 295-300: a dict is returned as it is when its keys are the expected ones
checked_toolchain_dict(spec) ==
    Then(Sorted(spec.ks),
         LAMBDA sorted_keys :
             IF PyEq(sorted_keys, ListV(<<S_name, S_version>>))
                \/ PyEq(sorted_keys, ListV(<<S_hidden, S_name, S_version>>))
             THEN Ok(spec)
             ELSE Raise("EasyBuildError", "Incorrect set of keys in provided dictionary"))

\* lines 276-305 of to_toolchain_dict, a str spec being split already
toolchain_dict_of(spec) ==
    IF spec.k \in {"list", "tuple"}
    THEN IF Len(spec.e) = 2 THEN name_version(spec)
         ELSE IF Len(spec.e) = 3 THEN name_version_hidden(spec)
         ELSE Raise("EasyBuildError", "Can not convert list to toolchain dict")
    ELSE IF spec.k = "dict" THEN checked_toolchain_dict(spec)
    ELSE Raise("EasyBuildError", "Conversion to toolchain dict is not supported")

\* to_toolchain_dict(spec)
to_toolchain_dict(spec) ==
    toolchain_dict_of(IF spec.k = "str" THEN Split(spec.s, ",") ELSE spec)

AllStr(elems) == \A i \in 1..Len(elems) : elems[i].k = "str"

\* to_list_of_strings(value)
to_list_of_strings(value) ==
    IF value.k = "list" /\ AllStr(value.e) THEN Ok(value)
    ELSE IF value.k = "str" THEN Ok(ListV(<<value>>))
    ELSE IF value.k = "tuple" /\ AllStr(value.e) THEN Ok(ListV(value.e))
    ELSE Raise("EasyBuildError", "Don't know how to convert provided value to a list of strings")

RECURSIVE str_tup_loop(_, _, _)
\* for elem in spec: of to_list_of_strings_and_tuples[_and_dicts]; kept are the
\* kinds appended as they are
str_tup_loop(elems, kept, str_tup_list) ==
    IF elems = <<>> THEN Ok(ListV(str_tup_list))
    ELSE LET elem == Head(elems)
         IN IF elem.k \in kept THEN str_tup_loop(Tail(elems), kept, Append(str_tup_list, elem))
            ELSE IF elem.k = "list"
            THEN str_tup_loop(Tail(elems), kept, Append(str_tup_list, TupleV(elem.e)))
            ELSE Raise("EasyBuildError", "Expected elements to be of another type")

\* to_list_of_strings_and_tuples(spec)
to_list_of_strings_and_tuples(spec) ==
    IF spec.k \notin {"list", "tuple"}
    THEN Raise("EasyBuildError", "Expected value to be a list")
    ELSE str_tup_loop(spec.e, {"str", "tuple"}, <<>>)

\* to_list_of_strings_and_tuples_and_dicts(spec)
to_list_of_strings_and_tuples_and_dicts(spec) ==
    IF spec.k \notin {"list", "tuple"}
    THEN Raise("EasyBuildError", "Expected value to be a list")
    ELSE str_tup_loop(spec.e, {"str", "tuple", "dict"}, <<>>)

\* A call that may write to its argument: out is the outcome, arg the argument
\* object as the call leaves it.
Call(out, arg) == [out |-> out, arg |-> arg]

RECURSIVE entry_dict_loop(_, _)
\* for key, value in elem.items(): ... elem[key] = tuple(value), from the i-th
\* item on; the dict elem is written in place
entry_dict_loop(elem, i) ==
    IF i > Len(elem.ks) THEN Call(Ok(elem), elem)
    ELSE LET key == elem.ks[i]
             value == elem.e[i]
         IN IF key.k # "str"
            THEN Call(Raise("EasyBuildError", "Expected keys to be of type string"), elem)
            ELSE IF value.k = "list"
            THEN entry_dict_loop(DictV(elem.ks, [elem.e EXCEPT ![i] = TupleV(value.e)]), i + 1)
            ELSE IF value.k \notin {"str", "tuple"}
            THEN Call(Raise("EasyBuildError", "Expected elements to be of type string, tuple or list"),
                      elem)
            ELSE entry_dict_loop(elem, i + 1)

RECURSIVE entry_loop(_, _, _)

\* result.append(elem) after the loop over the items of the dict elems[i]; d is
\* what that loop has made of it
entry_dict_done(elems, i, result, d) ==
    IF Raised(d.out) THEN Call(d.out, [elems EXCEPT ![i] = d.arg])
    ELSE entry_loop([elems EXCEPT ![i] = d.arg], i + 1, Append(result, d.arg))

\* for elem in spec: of to_sanity_check_paths_entry, from the i-th element on;
\* elems are the elements of spec as the loop has left them
entry_loop(elems, i, result) ==
    IF i > Len(elems) THEN Call(Ok(ListV(result)), elems)
    ELSE IF elems[i].k \in {"str", "tuple"}
    THEN entry_loop(elems, i + 1, Append(result, elems[i]))
    ELSE IF elems[i].k = "list"
    THEN entry_loop(elems, i + 1, Append(result, TupleV(elems[i].e)))
    ELSE IF elems[i].k = "dict"
    THEN entry_dict_done(elems, i, result, entry_dict_loop(elems[i], 1))
    ELSE Call(Raise("EasyBuildError",
                    "Expected elements to be of type string, tuple/list or dict"),
              elems)

\* to_sanity_check_paths_entry(spec)
to_sanity_check_paths_entry(spec) ==
    IF spec.k \notin {"list", "tuple"}
    THEN Call(Raise("EasyBuildError", "Expected value to be a list"), spec)
    ELSE Let(entry_loop(spec.e, 1, <<>>),
             LAMBDA c : Call(c.out, Val(spec.k, <<>>, 0, c.arg, <<>>)))

RECURSIVE paths_dict_loop(_, _, _)

\* sanity_check_dict[key] = ..., c being the call made on spec[key]
paths_dict_set(spec, i, sanity_check_dict, c) ==
    IF Raised(c.out) THEN Call(c.out, DictV(spec.ks, [spec.e EXCEPT ![i] = c.arg]))
    ELSE paths_dict_loop(DictV(spec.ks, [spec.e EXCEPT ![i] = c.arg]), i + 1,
                         SetItem(sanity_check_dict, spec.ks[i], c.out.val))

\* for key in spec: sanity_check_dict[key] = to_sanity_check_paths_entry(spec[key])
paths_dict_loop(spec, i, sanity_check_dict) ==
    IF i > Len(spec.ks) THEN Call(Ok(sanity_check_dict), spec)
    ELSE paths_dict_set(spec, i, sanity_check_dict, to_sanity_check_paths_entry(spec.e[i]))

\* to_sanity_check_paths_dict(spec)
to_sanity_check_paths_dict(spec) ==
    IF spec.k # "dict"
    THEN Call(Raise("EasyBuildError", "Expected value to be a dict"), spec)
    ELSE paths_dict_loop(spec, 1, EmptyDict)

\* lines 482-489 of to_dependency: one key of dep_keys, value being dep[key]
dep_key_step(key, value, depspec) ==
    IF PyEq(key, S_versionsuffix) THEN Ok(SetItem(depspec, key, PyStr(value)))
    ELSE IF PyEq(key, S_toolchain)
    THEN Then(to_toolchain_dict(value), LAMBDA tc : Ok(SetItem(depspec, S_toolchain, tc)))
    ELSE IF ~(HasKey(depspec, S_name) /\ HasKey(depspec, S_version))
    THEN Ok(SetItem(SetItem(depspec, S_name, key), S_version, PyStr(value)))
    ELSE Raise("EasyBuildError", "Found unexpected (key, value) pair")

RECURSIVE dep_keys_loop(_, _, _)
\* for key in dep_keys: of to_dependency
dep_keys_loop(dep, dep_keys, depspec) ==
    IF dep_keys = <<>> THEN Ok(depspec)
    ELSE Then(Then(GetItem(dep, Head(dep_keys)),
                   LAMBDA value : dep_key_step(Head(dep_keys), value, depspec)),
              LAMBDA d : dep_keys_loop(dep, Tail(dep_keys), d))

RECURSIVE name_version_first(_, _, _, _)
\* for key in ['name', 'version']: if key in dep: ...; yields the pair
\* (depspec, dep_keys)
name_version_first(dep, keys, dep_keys, depspec) ==
    IF keys = <<>> THEN <<depspec, dep_keys>>
    ELSE Let(PyIndex(dep.ks, Head(keys), 1),
             LAMBDA i :
                 IF i # 0
                 THEN name_version_first(dep, Tail(keys),
                                         RemoveAt(dep_keys, PyIndex(dep_keys, Head(keys), 1)),
                                         SetItem(depspec, Head(keys), PyStr(dep.e[i])))
                 ELSE name_version_first(dep, Tail(keys), dep_keys, depspec))

\* d.get(key, default)
DictGet(d, key, default) ==
    Let(PyIndex(d.ks, key, 1), LAMBDA i : IF i # 0 THEN d.e[i] ELSE default)

\* lines 460-470 of to_dependency: a dependency marked as external module
external_module_spec(dep) ==
    Then(Sorted(dep.ks),
         LAMBDA keys :
             IF PyEq(keys, ListV(<<S_external_module, S_name>>))
             THEN Then(GetItem(dep, S_name),
                       LAMBDA name :
                           Ok(DictV(<<S_external_module, S_full_mod_name, S_name,
                                      S_short_mod_name, S_version>>,
                                    <<BoolV(TRUE), name, NoneV, name, NoneV>>)))
             ELSE Raise("EasyBuildError",
                        "Unexpected format for dependency marked as external module"))

RECURSIVE keys_in_order_loop(_, _, _)
\* one loop over the keys in the order of the dict, the name and version keys
\* handled where they come
keys_in_order_loop(dep, dep_keys, depspec) ==
    IF dep_keys = <<>> THEN Ok(depspec)
    ELSE Then(Then(GetItem(dep, Head(dep_keys)),
                   LAMBDA value :
                       IF PyEq(Head(dep_keys), S_name) \/ PyEq(Head(dep_keys), S_version)
                       THEN Ok(SetItem(depspec, Head(dep_keys), PyStr(value)))
                       ELSE dep_key_step(Head(dep_keys), value, depspec)),
              LAMBDA d : keys_in_order_loop(dep, Tail(dep_keys), d))

\* the dependency parsed without handling the name and version keys first
parsed_in_key_order(dep, first) ==
    Then(keys_in_order_loop(dep, dep.ks, EmptyDict),
         LAMBDA depspec :
             IF ~(HasKey(depspec, S_name) /\ HasKey(depspec, S_version))
             THEN Raise("EasyBuildError", "Can not parse dependency without name and version")
             ELSE Ok(depspec))

\* lines 481-492 of to_dependency, first being (depspec, dep_keys) after the
\* name and version keys
parsed_dependency(dep, first) ==
    Then(dep_keys_loop(dep, first[2], first[1]),
         LAMBDA depspec :
             IF ~(HasKey(depspec, S_name) /\ HasKey(depspec, S_version))
             THEN Raise("EasyBuildError", "Can not parse dependency without name and version")
             ELSE Ok(depspec))

\* to_dependency(dep)
to_dependency(dep) ==
    IF dep.k # "dict" THEN Ok(dep)
    ELSE IF Truthy(DictGet(dep, S_external_module, BoolV(FALSE)))
    THEN external_module_spec(dep)
    ELSE parsed_dependency(dep, name_version_first(dep, <<S_name, S_version>>, dep.ks,
                                                   EmptyDict))

RECURSIVE to_dependency_each(_, _)
to_dependency_each(deps, res) ==
    IF deps = <<>> THEN Ok(ListV(res))
    ELSE Then(to_dependency(Head(deps)),
              LAMBDA d : to_dependency_each(Tail(deps), Append(res, d)))

\* to_dependencies(dep_list)
to_dependencies(dep_list) ==
    Then(Iter(dep_list), LAMBDA deps : to_dependency_each(deps, <<>>))

RECURSIVE _to_checksum(_, _, _)

RECURSIVE to_checksum_each(_, _, _, _)
\* _to_checksum(x, list_level, allow_dict) for x in checksum, in order
to_checksum_each(elems, list_level, allow_dict, res) ==
    IF elems = <<>> THEN Ok(res)
    ELSE Then(_to_checksum(Head(elems), list_level, allow_dict),
              LAMBDA c : to_checksum_each(Tail(elems), list_level, allow_dict,
                                          Append(res, c)))

\* a list or tuple of checksums converted without looking for None in it
checksum_list_with_none(checksum, list_level, allow_dict) ==
    IF checksum.k = "tuple" \/ list_level > 0
    THEN Then(to_checksum_each(checksum.e, 99, allow_dict, <<>>),
              LAMBDA each : Ok(TupleV(each)))
    ELSE Then(to_checksum_each(checksum.e, list_level + 1, allow_dict, <<>>),
              LAMBDA each : Ok(ListV(each)))

\* lines 538-544 of _to_checksum: a list or tuple of checksums
checksum_list(checksum, list_level, allow_dict) ==
    IF \E i \in 1..Len(checksum.e) : checksum.e[i].k = "NoneType"
    THEN Raise("ValueError", "Unexpected None")
    ELSE IF checksum.k = "tuple" \/ list_level > 0
    THEN Then(to_checksum_each(checksum.e, 99, allow_dict, <<>>),
              LAMBDA each : Ok(TupleV(each)))
    ELSE Then(to_checksum_each(checksum.e, list_level + 1, allow_dict, <<>>),
              LAMBDA each : Ok(ListV(each)))

\* the element type ensured with every pair of a str and a str or an int
\* turned into a tuple, at whatever level
to_checksum_pair_as_tuple(checksum, list_level, allow_dict) ==
    IF checksum.k \in {"NoneType", "str"} THEN Ok(checksum)
    ELSE IF checksum.k \in {"list", "tuple"}
    THEN IF Len(checksum.e) = 2 /\ checksum.e[1].k = "str"
            /\ checksum.e[2].k \in {"str", "int", "bool"}
         THEN Ok(TupleV(checksum.e))
         ELSE IF list_level < 2 THEN checksum_list(checksum, list_level, allow_dict)
         ELSE Raise("ValueError", "Unexpected type")
    ELSE IF checksum.k = "dict" /\ allow_dict
    THEN Then(to_checksum_each(checksum.e, 0, FALSE, <<>>),
              LAMBDA each : Ok(DictV(checksum.ks, each)))
    ELSE Raise("ValueError", "Unexpected type")

\* _to_checksum(checksum, list_level=0, allow_dict=True)
_to_checksum(checksum, list_level, allow_dict) ==
    IF checksum.k \in {"NoneType", "str"} THEN Ok(checksum)
    ELSE IF checksum.k \in {"list", "tuple"}
    THEN IF Len(checksum.e) = 2 /\ checksum.e[1].k = "str"
            /\ checksum.e[2].k \in {"str", "int", "bool"}
         THEN (IF checksum.e[2].k # "str" \/ list_level > 0
               THEN Ok(TupleV(checksum.e))
               ELSE Ok(checksum))
         ELSE IF list_level < 2 THEN checksum_list(checksum, list_level, allow_dict)
         ELSE Raise("ValueError", "Unexpected type")
    ELSE IF checksum.k = "dict" /\ allow_dict
    THEN Then(to_checksum_each(checksum.e, 0, FALSE, <<>>),
              LAMBDA each : Ok(DictV(checksum.ks, each)))
    ELSE Raise("ValueError", "Unexpected type")

\* lines 554-557 of to_checksums: a ValueError becomes an EasyBuildError
invalid_checksums(each) ==
    IF each.exc = "ValueError" THEN Raise("EasyBuildError", "Invalid checksums")
    ELSE IF Raised(each) THEN each
    ELSE Ok(ListV(each.val))

\* to_checksums(checksums)
to_checksums(checksums) ==
    Then(Iter(checksums),
         LAMBDA entries : invalid_checksums(to_checksum_each(entries, 0, TRUE, <<>>)))

\* ------------------------------------------------------------ the dispatcher

\* type checking is skipped for easyconfig parameters names not listed in PARAMETER_TYPES
PARAMETER_TYPES ==
    <<<<S_checksums, CHECKSUMS>>,
      <<S_docurls, LIST_OF_STRINGS>>,
      <<S_name, T_str>>,
      <<S_osdependencies, STRING_OR_TUPLE_LIST>>,
      <<S_patches, STRING_OR_TUPLE_OR_DICT_LIST>>,
      <<S_sanity_check_paths, SANITY_CHECK_PATHS_DICT>>,
      <<S_toolchain, TOOLCHAIN_DICT>>,
      <<S_version, T_str>>>>
    \o [i \in 1..Len(DEPENDENCY_PARAMETERS) |-> <<DEPENDENCY_PARAMETERS[i], DEPENDENCIES>>]

\* the conversion function registered for each target type, by name
TYPE_CONVERSION_FUNCTIONS ==
    <<<<T_str, "str">>,
      <<T_float, "float">>,
      <<T_int, "int">>,
      <<CHECKSUMS, "to_checksums">>,
      <<DEPENDENCIES, "to_dependencies">>,
      <<LIST_OF_STRINGS, "to_list_of_strings">>,
      <<TOOLCHAIN_DICT, "to_toolchain_dict">>,
      <<SANITY_CHECK_PATHS_DICT, "to_sanity_check_paths_dict">>,
      <<STRING_OR_TUPLE_LIST, "to_list_of_strings_and_tuples">>,
      <<STRING_OR_TUPLE_OR_DICT_LIST, "to_list_of_strings_and_tuples_and_dicts">>>>

\* the keys of a registry
Keys(registry) == [i \in 1..Len(registry) |-> registry[i][1]]

\* registry.get(key, default)
Lookup(registry, key, default) ==
    Let(PyIndex(Keys(registry), key, 1),
        LAMBDA i : IF i # 0 THEN registry[i][2] ELSE default)

\* func(val), for the function registered under the name func
call_conversion(func, val) ==
    IF func = "str" THEN Call(Ok(PyStr(val)), val)
    ELSE IF func = "float" THEN Call(PyFloat(val), val)
    ELSE IF func = "int" THEN Call(PyInt(val), val)
    ELSE IF func = "to_checksums" THEN Call(to_checksums(val), val)
    ELSE IF func = "to_dependencies" THEN Call(to_dependencies(val), val)
    ELSE IF func = "to_list_of_strings" THEN Call(to_list_of_strings(val), val)
    ELSE IF func = "to_toolchain_dict" THEN Call(to_toolchain_dict(val), val)
    ELSE IF func = "to_sanity_check_paths_dict" THEN to_sanity_check_paths_dict(val)
    ELSE IF func = "to_list_of_strings_and_tuples"
    THEN Call(to_list_of_strings_and_tuples(val), val)
    ELSE Call(to_list_of_strings_and_tuples_and_dicts(val), val)

\* The outcome of a dispatcher call: out and arg as for Call, func the name of
\* the conversion function it has called ("" when it has called none).
Dispatched(out, arg, func) == [out |-> out, arg |-> arg, func |-> func]

\* lines 249-258 of convert_value_type: c is the call func(val), same the
\* outcome of isinstance(res, typ)
checked_conversion(c, func, same) ==
    IF Raised(c.out)
    THEN Dispatched(Raise("EasyBuildError", "Converting type failed"), c.arg, func)
    ELSE IF Raised(same) THEN Dispatched(same, c.arg, func)
    ELSE IF ~Truthy(same.val)
    THEN Dispatched(Raise("EasyBuildError", "Converting value didn't work as expected"),
                    c.arg, func)
    ELSE Dispatched(c.out, c.arg, func)

\* lines 244-253 of convert_value_type: c is the call func(val)
converted(c, func, typ) == checked_conversion(c, func, isinstance_any(c.out.val, typ))

\* convert_value_type without its last branch: a value that has no conversion
\* function is returned as it is
convert_or_keep(val, typ, func) ==
    IF func # "" THEN converted(call_conversion(func, val), func, typ)
    ELSE Dispatched(Ok(val), val, "")

\* lines 243-258 of convert_value_type: val is not of type typ yet; func is ""
\* when typ is not in TYPE_CONVERSION_FUNCTIONS
convert_with_function(val, typ, func) ==
    IF func # "" THEN converted(call_conversion(func, val), func, typ)
    ELSE Dispatched(Raise("EasyBuildError", "No conversion function available"), val, "")

\* convert_value_type without the branch of line 239: a value that is of the
\* target type is converted all the same
convert_always(matches, val, typ) ==
    IF Raised(matches) THEN Dispatched(matches, val, "")
    ELSE IF ~Hashable(typ) THEN Dispatched(Raise("TypeError", "unhashable type"), val, "")
    ELSE convert_with_function(val, typ, Lookup(TYPE_CONVERSION_FUNCTIONS, typ, ""))

\* lines 239-258 of convert_value_type, matches being the outcome of
\* typ in CHECKABLE_TYPES and is_value_of_type(val, typ)
convert_unless(matches, val, typ) ==
    IF Raised(matches) THEN Dispatched(matches, val, "")
    ELSE IF Truthy(matches.val) THEN Dispatched(Ok(val), val, "")
    ELSE IF ~Hashable(typ) THEN Dispatched(Raise("TypeError", "unhashable type"), val, "")
    ELSE convert_with_function(val, typ, Lookup(TYPE_CONVERSION_FUNCTIONS, typ, ""))

\* convert_value_type(val, typ)
convert_value_type(val, typ) ==
    IF PyIn(typ, EASY_TYPES) /\ isinstance(val, typ) THEN Dispatched(Ok(val), val, "")
    ELSE convert_unless(IF PyIn(typ, CHECKABLE_TYPES) THEN is_value_of_type(val, typ)
                        ELSE Ok(BoolV(FALSE)),
                        val, typ)

\* (True, newval) of a conversion that has returned
type_ok_after(c) ==
    IF Raised(c.out) THEN c
    ELSE Dispatched(Ok(TupleV(<<BoolV(TRUE), c.out.val>>)), c.arg, c.func)

\* lines 211-223 of check_type_of_param_value
checked_param_value(type_ok, val, expected_type, auto_convert) ==
    IF Raised(type_ok) THEN Dispatched(type_ok, val, "")
    ELSE IF Truthy(type_ok.val) THEN Dispatched(Ok(TupleV(<<type_ok.val, val>>)), val, "")
    ELSE IF auto_convert THEN type_ok_after(convert_value_type(val, expected_type))
    ELSE Dispatched(Ok(TupleV(<<BoolV(FALSE), NoneV>>)), val, "")

\* lines 203-223 of check_type_of_param_value
check_against(expected_type, val, auto_convert) ==
    checked_param_value(IF expected_type = NoneV THEN Ok(BoolV(TRUE))
                        ELSE is_value_of_type(val, expected_type),
                        val, expected_type, auto_convert)

\* check_type_of_param_value(key, val, auto_convert=False): the outcome holds
\* the tuple (type_ok, newval)
check_type_of_param_value(key, val, auto_convert) ==
    IF ~Hashable(key) THEN Dispatched(Raise("TypeError", "unhashable type"), val, "")
    ELSE check_against(Lookup(PARAMETER_TYPES, key, NoneV), val, auto_convert)

\* ------------------------------------------------------------ inputs

C_a == StrV(<<"a">>)

C_b == StrV(<<"b">>)

C_1 == StrV(<<"1">>)

C_padded == StrV(<<" ", "B", " ">>)

C_yes == StrV(<<" ", "Y">>)

C_csv2 == StrV(<<"a", ",", " ", "1">>)

C_csv3 == StrV(<<"a", ",", "1", ",", "O", "n">>)

C_csv3bad == StrV(<<"a", ",", "1", ",", "x">>)

C_foo == StrV(<<"f", "o", "o">>)

Strings == {C_a, C_1, C_padded, C_yes, C_csv2, C_csv3, C_csv3bad, StrV(<<>>)}

Atoms ==
    Strings \cup {NoneV, BoolV(TRUE), BoolV(FALSE), IntV(0), IntV(1), FloatV(15), T_str}

\* flat lists and tuples
FlatElems == {NoneV, BoolV(TRUE), IntV(1), C_a, C_padded, C_yes}

FlatSeqs ==
    {Val(k, <<>>, 0, es, <<>>) : k \in {"list", "tuple"}, es \in SeqsUpTo(FlatElems, MaxLen)}

\* lists and tuples of strings, sequences and dicts
NestedElems ==
    {C_a, NoneV, TupleV(<<C_a>>), ListV(<<C_a, C_b>>), TupleV(<<C_a, IntV(1)>>),
     DictV(<<C_a>>, <<C_b>>), DictV(<<C_a>>, <<ListV(<<C_a>>)>>)}

NestedSeqs ==
    {Val(k, <<>>, 0, es, <<>>) : k \in {"list", "tuple"}, es \in SeqsUpTo(NestedElems, MaxLen)}

\* dicts with the keys of a toolchain, in every order
ToolchainKeys == {S_name, S_version, S_hidden, C_foo}

ToolchainDicts ==
    UNION {{DictV(ks, vs) : ks \in DistinctSeqs(ToolchainKeys, m),
                            vs \in [1..m -> {C_a, BoolV(TRUE)}]} : m \in 0..MaxKeys}

\* dicts with the keys of a dependency, in every order
DepValue(key) ==
    IF key = S_name THEN C_a
    ELSE IF key = S_version THEN IntV(1)
    ELSE IF key = S_toolchain THEN C_csv2
    ELSE IF key = S_external_module THEN BoolV(TRUE)
    ELSE C_1

DepKeys == {S_name, S_version, S_toolchain, S_versionsuffix, S_external_module, C_foo}

DepDicts ==
    UNION {{DictV(ks, [i \in 1..m |-> DepValue(ks[i])]) : ks \in DistinctSeqs(DepKeys, m)}
           : m \in 0..MaxKeys}

DepLists ==
    {ListV(<<d>>) : d \in DepDicts}
    \cup {ListV(<<TupleV(<<C_a, C_1>>)>>),
          ListV(<<DictV(<<S_name, S_version>>, <<C_a, C_1>>),
                  DictV(<<S_name, S_version, S_toolchain>>,
                        <<C_a, C_1, DictV(<<S_name, S_version>>, <<C_a, C_1>>)>>)>>)}

\* sanity_check_paths values
PathEntries ==
    {ListV(<<>>), ListV(<<C_a>>), ListV(<<C_a, ListV(<<C_a, C_b>>)>>),
     ListV(<<DictV(<<C_a>>, <<ListV(<<C_a, C_b>>)>>)>>),
     ListV(<<DictV(<<C_a, C_b>>, <<ListV(<<C_a>>), IntV(1)>>)>>),
     TupleV(<<DictV(<<C_a>>, <<TupleV(<<C_a>>)>>)>>),
     ListV(<<IntV(1)>>), C_a}

PathDicts ==
    {DictV(<<S_files, S_dirs>>, <<f, d>>) : f \in PathEntries, d \in PathEntries}
    \cup {DictV(<<S_files>>, <<f>>) : f \in PathEntries}

\* checksums values
ChecksumEntries ==
    {NoneV, C_a, IntV(1),
     TupleV(<<C_a, C_b>>), ListV(<<C_a, C_b>>), TupleV(<<C_a, IntV(1)>>),
     ListV(<<C_a, IntV(1)>>), ListV(<<C_a, BoolV(TRUE)>>),
     ListV(<<C_a, ListV(<<C_a, C_b>>)>>), ListV(<<C_a, TupleV(<<C_a, C_b>>)>>),
     ListV(<<ListV(<<C_a, C_b, C_1>>)>>), ListV(<<ListV(<<ListV(<<C_a, C_b, C_1>>)>>)>>),
     ListV(<<C_a, NoneV, C_b>>), TupleV(<<ListV(<<C_a, C_b, C_1>>)>>),
     DictV(<<C_a>>, <<C_b>>), DictV(<<C_a>>, <<NoneV>>),
     DictV(<<C_a>>, <<ListV(<<C_a, C_b>>)>>), DictV(<<C_a>>, <<DictV(<<C_a>>, <<C_b>>)>>),
     ListV(<<DictV(<<C_a>>, <<C_b>>)>>)}

ChecksumLists ==
    {ListV(<<c>>) : c \in ChecksumEntries} \cup {TupleV(<<c, C_a>>) : c \in ChecksumEntries}

\* mappings of requirements, with nested mappings in every order
ReqValues ==
    {ListV(<<C_a>>), TupleV(<<C_a>>), ListV(<<>>), EmptyDict, TupleV(<<>>), C_a,
     ListV(<<TupleV(<<C_a, C_b>>)>>),
     DictV(<<C_a>>, <<C_b>>),
     DictV(<<S_name, S_hidden>>, <<ListV(<<C_a>>), ListV(<<C_b>>)>>),
     DictV(<<S_hidden, S_name>>, <<ListV(<<C_b>>), ListV(<<C_a>>)>>),
     DictV(<<S_hidden, S_name>>, <<TupleV(<<C_b>>), TupleV(<<C_a>>)>>)}

ReqDicts ==
    UNION {{DictV(ks, vs) : ks \in DistinctSeqs({S_elem_types, S_req_keys}, m),
                            vs \in [1..m -> ReqValues]} : m \in 0..2}
    \cup {DictV(<<IntV(1), C_a>>, <<C_a, C_a>>), DictV(<<IntV(1)>>, <<C_a>>)}

\* lists and tuples of three and four elements, as toolchain specifications
C_off == StrV(<<"O", "F", "F">>)

ToolchainLists ==
    {Val(k, <<>>, 0, es, <<>>) :
        k \in {"list", "tuple"},
        es \in {<<C_a, C_padded, C_yes>>, <<C_a, C_1, C_off>>, <<C_a, C_1, C_b>>,
                <<C_a, IntV(1), C_yes>>, <<IntV(1), C_a, C_b>>,
                <<C_a, C_1, BoolV(TRUE)>>, <<C_a, C_b, C_1, C_yes>>}}

\* dependency dicts with two keys that are no dependency keys, in every order,
\* and with a toolchain that cannot be converted
UnknownKeyDicts ==
    UNION {{DictV(ks, [i \in 1..m |-> DepValue(ks[i])]) :
               ks \in {q \in DistinctSeqs({C_foo, C_b, S_name, S_version}, m) :
                          C_b \in Range(q)}}
           : m \in 2..MaxKeys}
    \cup {DictV(<<S_name, S_version, S_toolchain>>, <<C_a, C_1, C_a>>),
          DictV(<<S_toolchain, S_version, S_name>>, <<C_a, C_1, C_a>>),
          DictV(<<C_foo, S_toolchain>>, <<C_1, C_a>>),
          DictV(<<S_toolchain, C_foo>>, <<C_a, C_1>>)}

\* checksums values with None inside a list or tuple, at several depths
ChecksumNulls ==
    {ListV(<<ListV(<<ListV(<<C_a, NoneV>>), C_a>>)>>),
     ListV(<<DictV(<<C_a>>, <<ListV(<<C_b, NoneV>>)>>)>>),
     ListV(<<NoneV, DictV(<<C_a>>, <<NoneV>>)>>),
     ListV(<<C_a, TupleV(<<NoneV>>)>>),
     ListV(<<TupleV(<<TupleV(<<TupleV(<<NoneV, C_a>>)>>)>>)>>),
     ListV(<<IntV(1), ListV(<<NoneV>>)>>),
     TupleV(<<NoneV, ListV(<<C_a, C_b>>), ListV(<<C_a, ListV(<<C_a, C_b>>)>>)>>)}

Inputs ==
    Atoms \cup FlatSeqs \cup NestedSeqs \cup ToolchainDicts \cup DepDicts \cup DepLists
    \cup PathEntries \cup PathDicts \cup ChecksumEntries \cup ChecksumLists \cup ReqDicts
    \cup ToolchainLists \cup UnknownKeyDicts \cup ChecksumNulls

\* types that are neither easy nor checkable
LIST_WITH_KEY_TYPES ==
    Composite(T_list, DictV(<<S_elem_types, S_key_types>>,
                            <<ListV(<<T_str>>), ListV(<<T_str>>)>>))

DICT_WITH_UNKNOWN == Composite(T_dict, DictV(<<C_foo>>, <<ListV(<<T_str>>)>>))

TUPLE_OF_INTS == Composite(T_tuple, ElemTypes(<<T_int>>))

Types ==
    Range(EASY_TYPES) \cup Range(CHECKABLE_TYPES)
    \cup {T_float, LIST_WITH_KEY_TYPES, DICT_WITH_UNKNOWN, TUPLE_OF_INTS}

ParamKeys == Range(Keys(PARAMETER_TYPES)) \cup {C_foo, S_hidden}

\* ------------------------------------------------------------ the calls

VARIABLES
    val,    \* the caller's value object
    old,    \* what val held when the last call was made
    op,     \* the function called last ("none" before the first call)
    arg2,   \* its second argument (the expected type, the parameter name)
    auto,   \* its auto_convert argument
    res,    \* its outcome
    func    \* the conversion function the dispatcher has called ("" for none)

vars == <<val, old, op, arg2, auto, res, func>>

Init ==
    /\ val \in Inputs
    /\ old = val
    /\ op = "none"
    /\ arg2 = NoneV
    /\ auto = FALSE
    /\ res = Ok(NoneV)
    /\ func = ""

\* A call is made on a fresh value or on one the last call has written to: after
\* a call that left val as it was, the calls that can follow are those of the
\* initial state holding the same val, and they lead to the same states.
Callable == op = "none" \/ val # old

\* a call of a function that does not write to its argument
Pure(name, second, outcome) ==
    /\ Callable
    /\ op' = name
    /\ arg2' = second
    /\ res' = outcome
    /\ old' = val
    /\ UNCHANGED <<val, auto>>
    /\ func' = ""

\* a call that may write to its argument
Writing(name, call) ==
    /\ Callable
    /\ op' = name
    /\ arg2' = NoneV
    /\ res' = call.out
    /\ old' = val
    /\ val' = call.arg
    /\ UNCHANGED auto
    /\ func' = ""

\* a call of the dispatcher
Dispatch(name, second, flag, d) ==
    /\ Callable
    /\ op' = name
    /\ arg2' = second
    /\ auto' = flag
    /\ res' = d.out
    /\ old' = val
    /\ val' = d.arg
    /\ func' = d.func

AsHashable == Pure("as_hashable", NoneV, as_hashable(val))

IsValueOfType == \E t \in Types : Pure("is_value_of_type", t, is_value_of_type(val, t))

ConvertValueType ==
    \E t \in Types : Dispatch("convert_value_type", t, FALSE, convert_value_type(val, t))

CheckTypeOfParamValue ==
    \E key \in ParamKeys, flag \in BOOLEAN :
        Dispatch("check_type_of_param_value", key, flag,
                 check_type_of_param_value(key, val, flag))

ToToolchainDict == Pure("to_toolchain_dict", NoneV, to_toolchain_dict(val))

ToListOfStrings == Pure("to_list_of_strings", NoneV, to_list_of_strings(val))

ToListOfStringsAndTuples ==
    Pure("to_list_of_strings_and_tuples", NoneV, to_list_of_strings_and_tuples(val))

ToListOfStringsAndTuplesAndDicts ==
    Pure("to_list_of_strings_and_tuples_and_dicts", NoneV,
         to_list_of_strings_and_tuples_and_dicts(val))

ToSanityCheckPathsEntry ==
    Writing("to_sanity_check_paths_entry", to_sanity_check_paths_entry(val))

ToSanityCheckPathsDict ==
    Writing("to_sanity_check_paths_dict", to_sanity_check_paths_dict(val))

ToDependency == Pure("to_dependency", NoneV, to_dependency(val))

ToDependencies == Pure("to_dependencies", NoneV, to_dependencies(val))

ToChecksum ==
    \E list_level \in {0, 1, 2, 99}, allow_dict \in BOOLEAN :
        Pure("_to_checksum", TupleV(<<IntV(list_level), BoolV(allow_dict)>>),
             _to_checksum(val, list_level, allow_dict))

ToChecksums == Pure("to_checksums", NoneV, to_checksums(val))

Next ==
    \/ AsHashable
    \/ IsValueOfType
    \/ ConvertValueType
    \/ CheckTypeOfParamValue
    \/ ToToolchainDict
    \/ ToListOfStrings
    \/ ToListOfStringsAndTuples
    \/ ToListOfStringsAndTuplesAndDicts
    \/ ToSanityCheckPathsEntry
    \/ ToSanityCheckPathsDict
    \/ ToDependency
    \/ ToDependencies
    \/ ToChecksum
    \/ ToChecksums

Spec == Init /\ [][Next]_vars

\* ------------------------------------------------------------ properties
\*
\* After a call, op names the function called, old holds its first argument as
\* it was before the call, val the same object after the call, arg2 the second
\* argument, auto the auto_convert flag and res the outcome.

\* the requirements of a type with extra requirements, as a dict
Reqs(t) == PyDict(t.e[2]).val

\* the elements of the requirement called name
Req(t, name) == GetItem(Reqs(t), name).val.e

\* value matches expected_type: the matcher returns True
Matches(value, expected_type) == IsTrue(is_value_of_type(value, expected_type))

\* the type registered for a parameter name, None when there is none
ExpectedType(key) == Lookup(PARAMETER_TYPES, key, NoneV)

\* the types of str, bool, int, float, None, list, tuple and dict values
Primitives == {T_str, T_bool, T_int, T_float, T_NoneType, T_list, T_tuple, T_dict}

\* C1: for each of the types str, bool, int, float, NoneType, list, tuple and
\* dict and every value, is_value_of_type returns a boolean without raising,
\* and the boolean is True exactly when the kind of the value is that type; so
\* True and False do not match int.
PrimitiveIdentity ==
    (op = "is_value_of_type" /\ arg2 \in Primitives)
        => res = Ok(BoolV(old.k = arg2.s[1]))

\* the conversion functions registered for a type with extra requirements
Normalizers ==
    {TYPE_CONVERSION_FUNCTIONS[i][2] :
        i \in {j \in 1..Len(TYPE_CONVERSION_FUNCTIONS) :
                  TYPE_CONVERSION_FUNCTIONS[j][1].k = "tuple"}}

\* the type a conversion function is registered for
NormalizedType(name) ==
    TYPE_CONVERSION_FUNCTIONS[CHOOSE i \in 1..Len(TYPE_CONVERSION_FUNCTIONS) :
                                  TYPE_CONVERSION_FUNCTIONS[i][2] = name][1]

\* C2: whenever one of the seven conversion functions registered in
\* TYPE_CONVERSION_FUNCTIONS for a type with extra requirements returns, the
\* value it returns is of the type it is registered for.
ConversionThenMatch ==
    (op \in Normalizers /\ ~Raised(res)) => Matches(res.val, NormalizedType(op))

\* C3: whenever check_type_of_param_value, called with auto_convert=True for a
\* parameter name that has a type in PARAMETER_TYPES, returns (True, newval),
\* is_value_of_type(newval, that type) is True.
DispatcherRevalidation ==
    (/\ op = "check_type_of_param_value"
     /\ auto
     /\ ExpectedType(arg2) # NoneV
     /\ ~Raised(res)
     /\ Truthy(res.val.e[1]))
        => Matches(res.val.e[2], ExpectedType(arg2))

\* the functions that are to leave their argument as it is
NonMutating ==
    Normalizers \cup {"convert_value_type", "check_type_of_param_value"}

\* C4: after a call of a registered conversion function, of convert_value_type
\* or of check_type_of_param_value, the value passed in holds what it held
\* before the call, in every container nested in it, whether the call has
\* returned or raised.
NoInPlaceMutation == op \in NonMutating => val = old

\* C5: check_type_of_param_value returns (True, val), val being the value
\* passed in, calls no conversion function and leaves the value as it is,
\* whenever PARAMETER_TYPES has no type for the key or the value is of that
\* type, with and without auto_convert; convert_value_type returns the value
\* passed in whenever it is of the target type (for float, which the matcher
\* does not know: whenever it is a float).
PassThrough ==
    /\ (/\ op = "check_type_of_param_value"
        /\ (ExpectedType(arg2) = NoneV \/ Matches(old, ExpectedType(arg2))))
           => (/\ res = Ok(TupleV(<<BoolV(TRUE), old>>))
               /\ func = ""
               /\ val = old)
    /\ (/\ op = "convert_value_type"
        /\ (Matches(old, arg2) \/ (arg2 = T_float /\ old.k = "float")))
           => (res = Ok(old) /\ val = old)

\* a dict that was of its registered type has gone through the dispatcher,
\* auto_convert being set
PassThroughReached ==
    /\ op = "check_type_of_param_value"
    /\ auto
    /\ arg2 = S_toolchain
    /\ HasKey(old, S_hidden)
    /\ Matches(old, TOOLCHAIN_DICT)
    /\ res = Ok(TupleV(<<BoolV(TRUE), old>>))

\* the checkable dict types that state both req_keys and opt_keys
KeyedDictTypes ==
    {t \in Range(CHECKABLE_TYPES) :
        t.e[1] = T_dict /\ HasKey(Reqs(t), S_req_keys) /\ HasKey(Reqs(t), S_opt_keys)}

\* the values of the dict d under the given keys are all of the given kind
ValuesOfKind(d, keys, kind) ==
    \A i \in 1..Len(d.ks) : d.ks[i] \in keys => d.e[i].k = kind

\* for a dict type with req_keys R and opt_keys O, a value is of the type only
\* if it is a dict that holds every key of R and no key outside R and O
KeyLaw ==
    (op = "is_value_of_type" /\ arg2 \in KeyedDictTypes /\ IsTrue(res))
        => (/\ old.k = "dict"
            /\ \A key \in Range(Req(arg2, S_req_keys)) : HasKey(old, key)
            /\ \A key \in Range(old.ks) :
                  PyIn(key, Req(arg2, S_req_keys) \o Req(arg2, S_opt_keys)))

\* the four cases of TOOLCHAIN_DICT
ToolchainCases ==
    (op = "is_value_of_type" /\ arg2 = TOOLCHAIN_DICT /\ old.k = "dict")
        => (/\ (/\ Range(old.ks) = {S_name, S_version}
                /\ ValuesOfKind(old, {S_name, S_version}, "str"))
                   => res = Ok(BoolV(TRUE))
            /\ ~HasKey(old, S_version) => res = Ok(BoolV(FALSE))
            /\ HasKey(old, C_foo) => res = Ok(BoolV(FALSE))
            /\ (/\ Range(old.ks) = {S_name, S_version, S_hidden}
                /\ ValuesOfKind(old, {S_name, S_version}, "str")
                /\ ValuesOfKind(old, {S_hidden}, "bool"))
                   => res = Ok(BoolV(TRUE)))

\* C6: for a dict type with req_keys R and opt_keys O, a dict is of the type
\* only if it holds every key of R and each of its keys is in R or O; for
\* TOOLCHAIN_DICT a dict with a str name and version is of the type, one
\* without version is not, one with a key foo is not, and one with name,
\* version and a bool hidden is.
RequiredOptionalKeyLaw == KeyLaw /\ ToolchainCases

\* a toolchain dict with a bool hidden has been found to be of its type
RequiredOptionalKeyLawReached ==
    /\ op = "is_value_of_type"
    /\ arg2 = TOOLCHAIN_DICT
    /\ Range(old.ks) = {S_name, S_version, S_hidden}
    /\ IsTrue(res)

\* C7: for a checkable type whose parent is list (or tuple), is_value_of_type
\* returns True exactly when the value is a list (a tuple) and each of its
\* elements is of one of the types of elem_types; so it returns True for the
\* empty list (tuple) and False for a value of another kind.
ListTupleElementLaw ==
    (/\ op = "is_value_of_type"
     /\ arg2 \in Range(CHECKABLE_TYPES)
     /\ arg2.e[1] \in {T_list, T_tuple})
        => res = Ok(BoolV(/\ old.k = arg2.e[1].s[1]
                          /\ \A i \in 1..Len(old.e) :
                                \E t \in Range(Req(arg2, S_elem_types)) :
                                    Matches(old.e[i], t)))

\* a list of a str and a tuple of str has been found to be a
\* STRING_OR_TUPLE_LIST
ListTupleElementLawReached ==
    /\ op = "is_value_of_type"
    /\ arg2 = STRING_OR_TUPLE_LIST
    /\ old = ListV(<<C_a, TupleV(<<C_a>>)>>)
    /\ IsTrue(res)

\* C8: for a target type that has no entry in TYPE_CONVERSION_FUNCTIONS and a
\* value that is not of that type, convert_value_type raises the error 'No
\* conversion function available'; so check_type_of_param_value with
\* auto_convert=True returns (True, newval) only when there is no type for the
\* key, when the value is of the type, or when a registered conversion
\* function has been called.
NoConversionFunction ==
    /\ (/\ op = "convert_value_type"
        /\ ~PyIn(arg2, Keys(TYPE_CONVERSION_FUNCTIONS))
        /\ ~Matches(old, arg2))
           => (/\ res = Raise("EasyBuildError", "No conversion function available")
               /\ func = "")
    /\ (/\ op = "check_type_of_param_value"
        /\ auto
        /\ ~Raised(res)
        /\ Truthy(res.val.e[1]))
           => (\/ ExpectedType(arg2) = NoneV
               \/ Matches(old, ExpectedType(arg2))
               \/ PyIn(ExpectedType(arg2), Keys(TYPE_CONVERSION_FUNCTIONS)) /\ func # "")

\* a list has been refused as a STRING_DICT for want of a conversion function
NoConversionFunctionReached ==
    /\ op = "convert_value_type"
    /\ arg2 = STRING_DICT
    /\ old.k = "list"
    /\ res = Raise("EasyBuildError", "No conversion function available")

\* the 2-tuples (parent, requirements) stating a requirement that
\* is_value_of_type has no checker for, given the parent
UnknownRequirementTypes ==
    {t \in Types :
        /\ t.k = "tuple"
        /\ \E i \in 1..Len(t.e[2].e) :
              ~PyIn(t.e[2].e[i].e[1], extra_req_checkers(t.e[1]))}

\* the statement of C9 as it was made: for a type with an unknown requirement
\* is_value_of_type raises when the value is of the parent type and returns
\* False when it is not
UnknownRequirementOrMismatch ==
    (op = "is_value_of_type" /\ arg2 \in UnknownRequirementTypes)
        => IF isinstance(old, arg2.e[1]) THEN Raised(res)
           ELSE res = Ok(BoolV(FALSE))

\* C9: for a type that states a requirement unknown for its parent type,
\* is_value_of_type raises an EasyBuildError and returns nothing, whether or
\* not the value is of the parent type (no such type is in CHECKABLE_TYPES);
\* for a type of CHECKABLE_TYPES and a value that is not of its parent type it
\* returns False.
UnknownRequirementIsError ==
    /\ (op = "is_value_of_type" /\ arg2 \in UnknownRequirementTypes)
           => (Raised(res) /\ res.exc = "EasyBuildError")
    /\ (/\ op = "is_value_of_type"
        /\ arg2 \in Range(CHECKABLE_TYPES)
        /\ ~isinstance(old, arg2.e[1]))
           => res = Ok(BoolV(FALSE))

\* a str has been checked against a list type that states key_types
UnknownRequirementIsErrorReached ==
    /\ op = "is_value_of_type"
    /\ arg2 = LIST_WITH_KEY_TYPES
    /\ old.k = "str"
    /\ Raised(res)

\* the dicts among the values
Mappings == {d \in Inputs : d.k = "dict"}

\* as_hashable of each of them
HashOf == [d \in Mappings |-> as_hashable(d)]

\* two outcomes are the same: the same exception, or equal (==) values
SameOutcome(r1, r2) == r1.exc = r2.exc /\ (~Raised(r1) => PyEq(r1.val, r2.val))

\* two dicts hold the same keys
SameKeys(d1, d2) ==
    /\ \A key \in Range(d1.ks) : HasKey(d2, key)
    /\ \A key \in Range(d2.ks) : HasKey(d1, key)

\* the statement of C10 as it was made: two dicts holding the same entries
\* have equal results whatever the order of their keys, and two dicts holding
\* different entries have different results
CanonicalizationOneToOne ==
    (op = "as_hashable" /\ old.k = "dict" /\ ~Raised(res))
        => \A d \in Mappings :
              ~Raised(HashOf[d]) => (PyEq(old, d) <=> PyEq(res.val, HashOf[d].val))

\* C10: two dicts that hold the same entries, in whatever order their keys
\* and the keys of the dicts nested in them were inserted, have the same
\* outcome of as_hashable, and two dicts that do not hold the same keys have
\* different results; two dicts with the same keys and different values may
\* have equal results (a list and the tuple of its elements, an empty dict and
\* an empty tuple).
CanonicalizationCommutativity ==
    (op = "as_hashable" /\ old.k = "dict")
        => \A d \in Mappings :
              /\ PyEq(old, d) => SameOutcome(res, HashOf[d])
              /\ (~Raised(res) /\ ~Raised(HashOf[d]) /\ ~SameKeys(old, d))
                     => ~PyEq(res.val, HashOf[d].val)

\* a dict whose keys, and those of a dict nested in it, were not inserted in
\* sorted order has been hashed
CanonicalizationCommutativityReached ==
    /\ op = "as_hashable"
    /\ old.ks = <<S_req_keys, S_elem_types>>
    /\ old.e[1].ks = <<S_name, S_hidden>>
    /\ ~Raised(res)
    /\ \E d \in Mappings : d # old /\ PyEq(old, d) /\ HashOf[d] = res

\* the elements a toolchain is read from: the pieces of a str between commas,
\* the elements of a list or tuple
SpecElements(spec) == IF spec.k = "str" THEN Split(spec.s, ",").e ELSE spec.e

\* a str, list or tuple of n elements that are all str
StringsOfLength(spec, n) ==
    /\ spec.k \in {"str", "list", "tuple"}
    /\ Len(SpecElements(spec)) = n
    /\ \A i \in 1..n : SpecElements(spec)[i].k = "str"

\* the i-th element, stripped
Stripped(spec, i) == StrV(Strip(SpecElements(spec)[i].s))

\* the words read as True and as False
TruthyWords ==
    {<<"y", "e", "s">>, <<"t", "r", "u", "e">>, <<"t">>, <<"y">>, <<"1">>, <<"o", "n">>}

FalsyWords ==
    {<<"n", "o">>, <<"f", "a", "l", "s", "e">>, <<"f">>, <<"n">>, <<"0">>, <<"o", "f", "f">>}

\* the third element, stripped and lower-cased
HiddenWord(spec) == Lower(Strip(SpecElements(spec)[3].s))

\* C11: to_toolchain_dict returns {name, version}, both stripped, for a
\* comma-separated str or a list or tuple of two str; it returns {name,
\* version, hidden} for one of three str whose third element, stripped and
\* lower-cased, is one of yes, true, t, y, 1, on (hidden = True) or no, false,
\* f, n, 0, off (hidden = False); it returns a dict whose keys are exactly
\* name and version, or name, version and hidden, as it is; for any other
\* value it raises.
ToolchainNormalizer ==
    op = "to_toolchain_dict"
        => IF StringsOfLength(old, 2)
           THEN res = Ok(DictV(<<S_name, S_version>>, <<Stripped(old, 1), Stripped(old, 2)>>))
           ELSE IF StringsOfLength(old, 3) /\ HiddenWord(old) \in TruthyWords \cup FalsyWords
           THEN res = Ok(DictV(<<S_name, S_version, S_hidden>>,
                               <<Stripped(old, 1), Stripped(old, 2),
                                 BoolV(HiddenWord(old) \in TruthyWords)>>))
           ELSE IF /\ old.k = "dict"
                   /\ Range(old.ks) \in {{S_name, S_version}, {S_name, S_version, S_hidden}}
           THEN res = Ok(old)
           ELSE Raised(res)

\* a tuple of three str with padding has been turned into a hidden toolchain
ToolchainNormalizerReached ==
    /\ op = "to_toolchain_dict"
    /\ old = TupleV(<<C_a, C_padded, C_yes>>)
    /\ res = Ok(DictV(<<S_name, S_version, S_hidden>>, <<C_a, StrV(<<"B">>), BoolV(TRUE)>>))

\* a dict that is not marked as external module
Unmarked(dep) == dep.k = "dict" /\ ~Truthy(DictGet(dep, S_external_module, BoolV(FALSE)))

\* the dict inputs not marked as external module, and to_dependency of each
DepMappings == {d \in Mappings : Unmarked(d)}

DepOf == [d \in DepMappings |-> to_dependency(d)]

\* the entries of a dict, and two dicts made of the same entries, the keys in
\* whatever order
Entries(d) == {<<d.ks[i], d.e[i]>> : i \in 1..Len(d.ks)}

SameEntries(d1, d2) == Entries(d1) = Entries(d2)

\* the keys to_dependency knows
KnownDepKeys == {S_name, S_version, S_toolchain, S_versionsuffix}

\* C12: for a dict not marked as external module, to_dependency has the same
\* outcome whatever the order of the keys: with the same entries in another
\* order it raises as well or returns an equal dict. The name and version
\* keys are taken first, as strings; the toolchain is what to_toolchain_dict
\* makes of the toolchain key, and the call raises where that raises; the
\* versionsuffix is the versionsuffix key as a string; a key other than these
\* next to name and version raises; a dict of these keys that lacks name or
\* version raises; no result lacks name or version.
DependencyKeyOrder ==
    (op = "to_dependency" /\ Unmarked(old))
        => /\ \A d \in DepMappings :
                 SameEntries(old, d) => /\ Raised(res) <=> Raised(DepOf[d])
                                        /\ ~Raised(res) => PyEq(res.val, DepOf[d].val)
           /\ (HasKey(old, S_name) /\ HasKey(old, S_version) /\ ~Raised(res))
                  => /\ DictGet(res.val, S_name, NoneV) = PyStr(DictGet(old, S_name, NoneV))
                     /\ DictGet(res.val, S_version, NoneV)
                            = PyStr(DictGet(old, S_version, NoneV))
           /\ HasKey(old, S_toolchain)
                  => IF Raised(to_toolchain_dict(DictGet(old, S_toolchain, NoneV)))
                     THEN Raised(res)
                     ELSE ~Raised(res)
                              => DictGet(res.val, S_toolchain, NoneV)
                                     = to_toolchain_dict(DictGet(old, S_toolchain, NoneV)).val
           /\ (HasKey(old, S_versionsuffix) /\ ~Raised(res))
                  => DictGet(res.val, S_versionsuffix, NoneV)
                         = PyStr(DictGet(old, S_versionsuffix, NoneV))
           /\ (/\ HasKey(old, S_name)
               /\ HasKey(old, S_version)
               /\ \E key \in Range(old.ks) : key \notin KnownDepKeys)
                  => Raised(res)
           /\ (/\ Range(old.ks) \subseteq KnownDepKeys
               /\ ~(HasKey(old, S_name) /\ HasKey(old, S_version)))
                  => Raised(res)
           /\ ~Raised(res) => HasKey(res.val, S_name) /\ HasKey(res.val, S_version)

\* a dict whose name and version keys come last, after the toolchain and the
\* versionsuffix, has been parsed, with the result of the same entries in
\* another order
DependencyKeyOrderReached ==
    /\ op = "to_dependency"
    /\ Unmarked(old)
    /\ Len(old.ks) = 3
    /\ old.ks[1] = S_toolchain
    /\ old.ks[3] = S_name
    /\ ~Raised(res)
    /\ HasKey(res.val, S_toolchain)
    /\ \E d \in DepMappings : d # old /\ SameEntries(old, d) /\ PyEq(res.val, DepOf[d].val)

\* a list or tuple of two elements, a str and then a str or an int
TypedPair(v) ==
    /\ v.k \in {"list", "tuple"}
    /\ Len(v.e) = 2
    /\ v.e[1].k = "str"
    /\ v.e[2].k \in {"str", "int"}

\* C13: for a list or tuple of two elements, a str and then a str or an int,
\* _to_checksum returns the tuple of the two when the second is no str or
\* list_level is above 0, and the value as it is, a list still a list, at
\* list_level 0 with two str. So to_checksums leaves an entry of two str as it
\* is, and in an entry that is a list of checksums it keeps every str and
\* turns every such pair into a tuple.
ChecksumPairDisambiguation ==
    /\ (op = "_to_checksum" /\ TypedPair(old))
           => res = Ok(IF old.e[2].k # "str" \/ arg2.e[1].n > 0
                       THEN TupleV(old.e)
                       ELSE old)
    /\ (op = "to_checksums" /\ old.k \in {"list", "tuple"} /\ ~Raised(res))
           => \A i \in 1..Len(old.e) :
                 /\ (TypedPair(old.e[i]) /\ old.e[i].e[2].k = "str")
                        => res.val.e[i] = old.e[i]
                 /\ (old.e[i].k = "list" /\ ~TypedPair(old.e[i]))
                        => \A j \in 1..Len(old.e[i].e) :
                              /\ old.e[i].e[j].k = "str"
                                     => res.val.e[i].e[j] = old.e[i].e[j]
                              /\ TypedPair(old.e[i].e[j])
                                     => res.val.e[i].e[j] = TupleV(old.e[i].e[j].e)

\* an entry that is a list of a str and a list of two str has been converted:
\* the str is kept and the list of two str is a tuple
ChecksumPairDisambiguationReached ==
    /\ op = "to_checksums"
    /\ old = ListV(<<ListV(<<C_a, ListV(<<C_a, C_b>>)>>)>>)
    /\ res = Ok(ListV(<<ListV(<<C_a, TupleV(<<C_a, C_b>>)>>)>>))

RECURSIVE HasNullSeq(_)
\* v is, or holds at some depth among the elements of its lists and tuples
\* and the values of its dicts, a list or tuple with None among its elements
HasNullSeq(v) ==
    IF v.k \in {"list", "tuple"}
    THEN \E i \in 1..Len(v.e) : v.e[i].k = "NoneType" \/ HasNullSeq(v.e[i])
    ELSE IF v.k = "dict" THEN \E i \in 1..Len(v.e) : HasNullSeq(v.e[i])
    ELSE FALSE

\* C14: to_checksums of a list or tuple of entries raises EasyBuildError, and
\* returns nothing, when an entry is or holds at some depth a list or tuple
\* with None among its elements; no ValueError leaves it. When it returns, it
\* returns one element for each entry, None for each entry that is None and
\* for each None value of an entry that is a dict, and no other None: no
\* element of the result is or holds a list or tuple with None in it.
NullRejection ==
    (op = "to_checksums" /\ old.k \in {"list", "tuple"})
        => /\ (\E i \in 1..Len(old.e) : HasNullSeq(old.e[i]))
                  => res.exc = "EasyBuildError" /\ res.val = NoneV
           /\ res.exc # "ValueError"
           /\ ~Raised(res)
                  => /\ res.val.k = "list"
                     /\ Len(res.val.e) = Len(old.e)
                     /\ \A i \in 1..Len(old.e) :
                           /\ old.e[i].k = "NoneType" => res.val.e[i] = NoneV
                           /\ old.e[i].k = "dict"
                                  => \A j \in 1..Len(old.e[i].e) :
                                        old.e[i].e[j].k = "NoneType"
                                            => res.val.e[i].e[j] = NoneV
                           /\ ~HasNullSeq(res.val.e[i])

\* an entry holding a list with None two lists down has been rejected
NullRejectionReached ==
    /\ op = "to_checksums"
    /\ old = ListV(<<ListV(<<ListV(<<C_a, NoneV>>), C_a>>)>>)
    /\ res.exc = "EasyBuildError"
    /\ res.val = NoneV

RECURSIVE BuiltFromListsAndDicts(_)
\* a scalar, or a list or dict whose elements or values are built in the same
\* way
BuiltFromListsAndDicts(v) ==
    IF v.k \in {"list", "dict"}
    THEN \A i \in 1..Len(v.e) : BuiltFromListsAndDicts(v.e[i])
    ELSE v.k # "tuple"

\* C15: for a dict whose values are built from scalars, lists and dicts, what
\* as_hashable returns holds no list and no dict at any depth, so that it is
\* hashable.
CanonicalFormImmutable ==
    (op = "as_hashable" /\ old.k = "dict" /\ BuiltFromListsAndDicts(old) /\ ~Raised(res))
        => Hashable(res.val)

====
